---------------------------- MODULE Spec2Model ----------------------------
(***************************************************************************)
(* Model of test-with-python-client.py: a conformance probe for the login  *)
(* phase of an iSCSI target.                                               *)
(*                                                                         *)
(*   - the codec: create_login_pdu and parse_login_response, as operators  *)
(*     over byte strings;                                                  *)
(*   - the runner: main and the three scenario functions, as a state       *)
(*     machine whose steps are the statements between two blocking socket  *)
(*     operations.                                                         *)
(*                                                                         *)
(* A Python bytes value is a sequence of blocks [pat, n]: the byte         *)
(* sequence pat repeated n times.  A short buffer is one block with n = 1; *)
(* the blocks let a payload of 2^24 bytes and more be written down, which  *)
(* is where the 3-byte length field of the header wraps.  A Python str is  *)
(* a sequence of runs [cp, n]: the code point cp repeated n times.         *)
(*                                                                         *)
(* Environment assumptions of the model: socket.socket(), settimeout(),    *)
(* close() and print() do not raise; connect, sendall and recv may raise   *)
(* (refused, reset, timeout).  TLC's integers end at 2^31 - 1, so the      *)
(* 32-bit arguments are drawn from 0 .. 2^31 - 1.                          *)
(***************************************************************************)
EXTENDS Integers, Sequences, FiniteSets, TLC

VARIABLES
    \* ---- codec harness (CodecSpec) ----
    op,          \* which codec function the harness applies: "encode" | "decode" | "none"
    cpc,         \* harness position: "call" | "ret" | "off"
    args,        \* the arguments of create_login_pdu
    pdu,         \* what create_login_pdu returned (or raised)
    data,        \* the buffer handed to parse_login_response
    parsed,      \* what parse_login_response returned (or raised)
    \* ---- runner (Spec): the process and its environment ----
    argv,        \* sys.argv
    reachable,   \* environment: whether the target accepts connections at all
    repertoire,  \* environment: the replies the target may write
    pc,          \* the statement the process is at
    cur,         \* index into Order of the scenario being run (0 before the first)
    results,     \* main's list of verdicts
    exitStatus,  \* the process exit status, -1 while it runs
    escaped,     \* the exception that reached the top level, "none" if none
    sock,        \* per scenario: "none" | "open" | "closed"
    timeoutSet,  \* per scenario: settimeout(5.0) was called on its socket
    connected,   \* per scenario: connect returned normally
    connects,    \* per scenario: number of connect calls
    sends,       \* per scenario: number of sendall calls
    recvs,       \* per scenario: number of recv calls
    wire,        \* the message last handed to sendall
    reply,       \* environment: the bytes the target wrote on this connection
    response,    \* per scenario: its local response, what recv returned
    result,      \* per scenario: its local result, what parse_login_response returned
    exc,         \* the exception in flight, "none" if none
    ret,         \* the scenario's return value: "unset" | "True" | "False"
    line         \* per scenario: the result line it printed

codecVars == <<op, cpc, args, pdu, data, parsed>>

runnerVars == <<argv, repertoire, reachable, pc, cur, results, exitStatus, escaped, sock,
                timeoutSet, connected, connects, sends, recvs, wire, reply,
                response, result, exc, ret, line>>

vars == <<codecVars, runnerVars>>

-----------------------------------------------------------------------------
(* Bounds of the model                                                     *)

\* longest parameter text, in runs
MaxParamRuns == 2
\* longest response buffer the network delivers, in bytes
MaxBufLen == 50

-----------------------------------------------------------------------------
(* Byte strings                                                            *)

Byte == 0 .. 255

Block(pat, n) == [pat |-> pat, n |-> n]

\* b'...' of a short byte sequence
Bytes(s) == IF Len(s) = 0 THEN <<>> ELSE <<Block(s, 1)>>

RECURSIVE LenRange(_, _, _)
\* the number of bytes in blocks lo .. hi of b (halving, to keep the depth low)
LenRange(b, lo, hi) ==
    IF lo > hi THEN 0
    ELSE IF lo = hi THEN Len(b[lo].pat) * b[lo].n
    ELSE LET mid == (lo + hi) \div 2
         IN  LenRange(b, lo, mid) + LenRange(b, mid + 1, hi)

\* len(b)
ByteLen(b) == LenRange(b, 1, Len(b))

\* b[i], i counted from 0; "IndexError" past the end
ByteAt(b, i) ==
    IF i < 0 \/ i >= ByteLen(b) THEN "IndexError"
    ELSE LET k == CHOOSE j \in 1 .. Len(b) :
                      /\ LenRange(b, 1, j - 1) <= i
                      /\ i < LenRange(b, 1, j)
         IN  b[k].pat[((i - LenRange(b, 1, k - 1)) % Len(b[k].pat)) + 1]

\* b + c
Concat(b, c) == b \o c

RECURSIVE BitOr(_, _)
\* a | b on non-negative integers
BitOr(a, b) ==
    IF a = 0 THEN b
    ELSE IF b = 0 THEN a
    ELSE (IF a % 2 = 1 \/ b % 2 = 1 THEN 1 ELSE 0) + (2 * BitOr(a \div 2, b \div 2))

RECURSIVE BitAnd(_, _)
\* a & b on non-negative integers
BitAnd(a, b) ==
    IF a = 0 \/ b = 0 THEN 0
    ELSE (IF a % 2 = 1 /\ b % 2 = 1 THEN 1 ELSE 0) + (2 * BitAnd(a \div 2, b \div 2))

\* (v >> k) & 0xFF
ShiftMask(v, k) == (v \div (2 ^ k)) % 256

-----------------------------------------------------------------------------
(* create_login_pdu                                                        *)

Run(cp, n) == [cp |-> cp, n |-> n]

\* a str of single characters, from its code points
Str(cps) == [i \in 1 .. Len(cps) |-> Run(cps[i], 1)]

IsSurrogate(cp) == cp >= 55296 /\ cp <= 57343

\* the UTF-8 encoding of one code point
Utf8(cp) ==
    IF cp < 128 THEN <<cp>>
    ELSE IF cp < 2048 THEN <<192 + (cp \div 64), 128 + (cp % 64)>>
    ELSE IF cp < 65536 THEN
        <<224 + (cp \div 4096), 128 + ((cp \div 64) % 64), 128 + (cp % 64)>>
    ELSE <<240 + (cp \div 262144), 128 + ((cp \div 4096) % 64),
           128 + ((cp \div 64) % 64), 128 + (cp % 64)>>

\* params.encode('utf-8'): every character becomes its 1 to 4 bytes
Encode(text) ==
    IF \E i \in 1 .. Len(text) : IsSurrogate(text[i].cp)
    THEN [exc |-> "UnicodeEncodeError", buf |-> <<>>]
    ELSE [exc |-> "none",
          buf |-> [i \in 1 .. Len(text) |-> Block(Utf8(text[i].cp), text[i].n)]]

\* the padding appended before the length is tested, so that an aligned text
\* gets four null bytes (a plausible do-while slip)
PadAtLeastOne(b) ==
    Concat(b, [i \in 1 .. (4 - (ByteLen(b) % 4)) |-> Block(<<0>>, 1)])

RECURSIVE PadToEven(_)
\* the same loop aligning to 2 bytes instead of 4 (a plausible slip)
PadToEven(b) ==
    IF ByteLen(b) % 2 # 0 THEN PadToEven(Concat(b, Bytes(<<0>>))) ELSE b

RECURSIVE Pad(_)
\* while len(param_bytes) % 4 != 0: param_bytes += b'\0'
Pad(b) ==
    IF ByteLen(b) % 4 # 0 THEN Pad(Concat(b, Bytes(<<0>>))) ELSE b

\* bytearray(48)
HeaderLen == 48

ZeroHeader == [i \in 1 .. HeaderLen |-> 0]

\* bhs[off] = v
SetByte(h, off, v) ==
    IF h.exc # "none" THEN h
    ELSE IF off >= Len(h.buf) THEN [exc |-> "IndexError", buf |-> h.buf]
    ELSE IF v < 0 \/ v > 255 THEN [exc |-> "ValueError", buf |-> h.buf]
    ELSE [exc |-> "none", buf |-> [h.buf EXCEPT ![off + 1] = v]]

\* bhs[lo:hi] = s  (a slice assignment: the bytearray takes the length of s there)
SliceAssign(h, lo, hi, s) ==
    IF h.exc # "none" THEN h
    ELSE [exc |-> "none",
          buf |-> SubSeq(h.buf, 1, lo) \o s \o SubSeq(h.buf, hi + 1, Len(h.buf))]

\* struct.pack_into('>H', bhs, off, v)
PackH(h, off, v) ==
    IF h.exc # "none" THEN h
    ELSE IF v < 0 \/ v > 65535 \/ off + 2 > Len(h.buf)
         THEN [exc |-> "struct.error", buf |-> h.buf]
    ELSE [exc |-> "none",
          buf |-> [h.buf EXCEPT ![off + 1] = ShiftMask(v, 8),
                                ![off + 2] = ShiftMask(v, 0)]]

\* the four bytes written least significant byte first, as '<I' would (a
\* plausible slip)
PackILittleEndian(h, off, v) ==
    IF h.exc # "none" THEN h
    ELSE IF v < 0 \/ (v \div 65536) > 65535 \/ off + 4 > Len(h.buf)
         THEN [exc |-> "struct.error", buf |-> h.buf]
    ELSE [exc |-> "none",
          buf |-> [h.buf EXCEPT ![off + 1] = ShiftMask(v, 0),
                                ![off + 2] = ShiftMask(v, 8),
                                ![off + 3] = ShiftMask(v, 16),
                                ![off + 4] = ShiftMask(v, 24)]]

\* struct.pack_into('>I', bhs, off, v); v > 2^32 - 1 is written v \div 2^16 > 2^16 - 1
PackI(h, off, v) ==
    IF h.exc # "none" THEN h
    ELSE IF v < 0 \/ (v \div 65536) > 65535 \/ off + 4 > Len(h.buf)
         THEN [exc |-> "struct.error", buf |-> h.buf]
    ELSE [exc |-> "none",
          buf |-> [h.buf EXCEPT ![off + 1] = ShiftMask(v, 24),
                                ![off + 2] = ShiftMask(v, 16),
                                ![off + 3] = ShiftMask(v, 8),
                                ![off + 4] = ShiftMask(v, 0)]]

\* opcode = 0x03, flags = 0x83
LOGIN_REQUEST == 3
LoginFlags == 131

\* the length bytes written least significant byte first (a plausible slip)
LengthFieldLittleEndian(h, data_len) ==
    SetByte(SetByte(SetByte(h, 5, ShiftMask(data_len, 0)),
                    6, ShiftMask(data_len, 8)),
            7, ShiftMask(data_len, 16))

\* bhs[5], bhs[6], bhs[7]: DataSegmentLength, most significant byte first
LengthField(h, data_len) ==
    SetByte(SetByte(SetByte(h, 5, ShiftMask(data_len, 16)),
                    6, ShiftMask(data_len, 8)),
            7, ShiftMask(data_len, 0))

\* create_login_pdu(isid, tsih, cid, cmd_sn, exp_stat_sn, params):
\* [exc, msg] where msg is bytes(bhs) + param_bytes
create_login_pdu(isid, tsih, cid, cmd_sn, exp_stat_sn, params) ==
    LET enc == Encode(params)
    IN  IF enc.exc # "none" THEN [exc |-> enc.exc, msg |-> <<>>]
        ELSE
        LET param_bytes == Pad(enc.buf)
            data_len == ByteLen(param_bytes)
            h0 == [exc |-> "none", buf |-> ZeroHeader]
            h1 == SetByte(h0, 0, BitOr(LOGIN_REQUEST, 64))
            h2 == SetByte(h1, 1, LoginFlags)
            h3 == SetByte(h2, 4, 0)
            h4 == LengthField(h3, data_len)
            h5 == SliceAssign(h4, 8, 14, isid)
            h6 == PackH(h5, 14, tsih)
            h7 == PackI(h6, 16, cmd_sn)
            h8 == PackH(h7, 20, cid)
            h9 == PackI(h8, 24, cmd_sn)
            h10 == PackI(h9, 28, exp_stat_sn)
        IN  IF h10.exc # "none" THEN [exc |-> h10.exc, msg |-> <<>>]
            ELSE [exc |-> "none", msg |-> Concat(Bytes(h10.buf), param_bytes)]

-----------------------------------------------------------------------------
(* parse_login_response                                                    *)

LOGIN_RESPONSE == 35

NoResult == [kind |-> "None", opcode |-> 0, status_class |-> 0,
             status_detail |-> 0, status_code |-> 0]

Raised(e) == [kind |-> e, opcode |-> 0, status_class |-> 0,
              status_detail |-> 0, status_code |-> 0]

\* the length guard one byte too lax (a plausible slip)
TooShortLax(d) == ByteLen(d) < 37

\* if len(data) < 48
TooShort(d) == ByteLen(d) < HeaderLen

\* the opcode taken from the whole first byte (a plausible slip)
OpcodeUnmasked(d) == ByteAt(d, 0)

\* the first byte masked with the tag 0x23 instead of 0x3F (a plausible slip)
OpcodeMaskedByTag(d) == BitAnd(ByteAt(d, 0), 35)

\* opcode = data[0] & 0x3F
Opcode(d) == ByteAt(d, 0) % 64

\* the status combined with the bytes swapped (a plausible slip)
StatusCodeSwapped(class, detail) == BitOr(detail * 256, class)

\* (status_class << 8) | status_detail
StatusCode(class, detail) == BitOr(class * 256, detail)

\* parse_login_response(data): None, a result, or the exception an index raises
parse_login_response(d) ==
    IF TooShort(d) THEN NoResult
    ELSE IF ByteLen(d) = 0 THEN Raised("IndexError")
    ELSE IF Opcode(d) # LOGIN_RESPONSE THEN NoResult
    ELSE IF ByteLen(d) < 38 THEN Raised("IndexError")
    ELSE [kind |-> "result",
          opcode |-> Opcode(d),
          status_class |-> ByteAt(d, 36),
          status_detail |-> ByteAt(d, 37),
          status_code |-> StatusCode(ByteAt(d, 36), ByteAt(d, 37))]

-----------------------------------------------------------------------------
(* The codec harness: the two functions applied to inputs from bounded sets *)

\* the width of the DataSegmentLength field: three bytes
FieldLimit == 2 ^ 24

\* characters of 1, 2, 3 and 4 UTF-8 bytes: NUL, 'A', e-acute, the euro sign, an emoji
CodePoints == {0, 65, 233, 8364, 128512}

\* run lengths: short ones, and ones that reach the width of the length field
Counts == {1, 2, FieldLimit - 4, FieldLimit}

Runs == {Run(c, n) : c \in CodePoints, n \in Counts}

RECURSIVE SeqsUpTo(_, _)
\* all sequences over S of length at most k
SeqsUpTo(S, k) ==
    IF k = 0 THEN {<<>>}
    ELSE LET shorter == SeqsUpTo(S, k - 1)
         IN  shorter \cup {Append(t, x) : t \in shorter, x \in S}

Texts == SeqsUpTo(Runs, MaxParamRuns)

\* the three scenarios' isid values
Isids == {<<1, 2, 3, 4, 5, 6>>, <<1, 2, 3, 4, 5, 7>>, <<1, 2, 3, 4, 5, 8>>}

\* (tsih, cid, cmd_sn, exp_stat_sn): the scenarios' zeros and two other tuples
Numbers == {<<0, 0, 0, 0>>, <<1, 2, 16909060, 5>>, <<65535, 258, 2147483647, 1>>}

MkArgs(isid, nums, params) ==
    [isid |-> isid, tsih |-> nums[1], cid |-> nums[2], cmd_sn |-> nums[3],
     exp_stat_sn |-> nums[4], params |-> params]

ArgSet == {MkArgs(i, n, t) : i \in Isids, n \in Numbers, t \in Texts}

NoArgs == MkArgs(<<>>, <<0, 0, 0, 0>>, <<>>)

NoPdu == [exc |-> "none", msg |-> <<>>]

\* a buffer of len bytes: byte 0 is b0, byte 36 is b36, byte 37 is b37, the rest fill
Buffer(len, b0, b36, b37, fill) ==
    Bytes([i \in 1 .. len |->
              IF i = 1 THEN b0
              ELSE IF i = 37 THEN b36
              ELSE IF i = 38 THEN b37
              ELSE fill])

BufLens == {0, 1, 36, 37, 38, 47, 48, 49, MaxBufLen}

\* 0x23 with each setting of the top two bits, and other opcodes
FirstBytes == {35, 99, 163, 227, 3, 34, 0, 255}

Classes == {0, 2, 3, 255}

Details == {0, 3, 7, 255}

Buffers ==
    {Buffer(l, b0, c, d, f) :
        l \in BufLens, b0 \in FirstBytes, c \in Classes, d \in Details, f \in {0, 170}}

-----------------------------------------------------------------------------
(* The runner: scenario constants                                          *)

\* main, lines 192-194: the order in which the scenarios are called
Order == <<"successful_login", "target_not_found", "missing_parameter">>

Scenarios == {Order[i] : i \in 1 .. Len(Order)}

\* test_target_not_found comparing with the code of test_missing_parameter
\* (a plausible copy-and-paste slip)
ExpectedCopyPaste(s) ==
    CASE s = "successful_login" -> 0
      [] s = "target_not_found" -> 519
      [] s = "missing_parameter" -> 519

\* the status code each scenario compares with: 0x0000, 0x0203, 0x0207
Expected(s) ==
    CASE s = "successful_login" -> 0
      [] s = "target_not_found" -> 515
      [] s = "missing_parameter" -> 519

\* the bufsize each scenario passes to recv
RecvSize(s) == IF s = "successful_login" THEN 1024 ELSE 48

\* "InitiatorName=iqn.2025-12.test:python-client\0"
InitiatorNameParam ==
    <<73, 110, 105, 116, 105, 97, 116, 111, 114, 78, 97, 109, 101, 61, 105,
      113, 110, 46, 50, 48, 50, 53, 45, 49, 50, 46, 116, 101, 115, 116, 58,
      112, 121, 116, 104, 111, 110, 45, 99, 108, 105, 101, 110, 116, 0>>

\* "TargetName=iqn.wrong.target.name\0"
WrongTargetParam ==
    <<84, 97, 114, 103, 101, 116, 78, 97, 109, 101, 61, 105, 113, 110, 46,
      119, 114, 111, 110, 103, 46, 116, 97, 114, 103, 101, 116, 46, 110,
      97, 109, 101, 0>>

\* "TargetName=iqn.2025-12.local:storage.memory-disk\0"
TargetNameParam ==
    <<84, 97, 114, 103, 101, 116, 78, 97, 109, 101, 61, 105, 113, 110, 46,
      50, 48, 50, 53, 45, 49, 50, 46, 108, 111, 99, 97, 108, 58, 115, 116,
      111, 114, 97, 103, 101, 46, 109, 101, 109, 111, 114, 121, 45, 100,
      105, 115, 107, 0>>

\* "AuthMethod=None\0"
AuthMethodParam ==
    <<65, 117, 116, 104, 77, 101, 116, 104, 111, 100, 61, 78, 111, 110,
      101, 0>>

\* the parameter text each scenario builds
Params(s) ==
    CASE s = "successful_login" ->
            Str(InitiatorNameParam \o TargetNameParam \o AuthMethodParam)
      [] s = "target_not_found" ->
            Str(InitiatorNameParam \o WrongTargetParam \o AuthMethodParam)
      [] s = "missing_parameter" ->
            Str(TargetNameParam \o AuthMethodParam)

\* the isid each scenario uses
Isid(s) ==
    CASE s = "successful_login" -> <<1, 2, 3, 4, 5, 8>>
      [] s = "target_not_found" -> <<1, 2, 3, 4, 5, 6>>
      [] s = "missing_parameter" -> <<1, 2, 3, 4, 5, 7>>

\* Whether the scenario's mismatch line can be formatted.  Lines 96 and 131
\* put a conditional expression after the ':' of the replacement field, where
\* it is a format specification: result['status_code'] raises TypeError when
\* result is None, and format() raises ValueError otherwise.  Lines 167-168
\* compute the code first and format it with ':04x'.
MismatchLineFormats(s) == s = "successful_login"

\* the exception evaluating the mismatch line raises in the other scenarios
MismatchLineError(r) == IF r.kind = "None" THEN "TypeError" ELSE "ValueError"

\* a handler that lets timeouts through (a plausible slip)
CatchesAllButTimeout(e) == e # "timeout"

\* except Exception: every exception of the model derives from Exception
Catches(e) == TRUE

\* the truth value of result in `if result and ...`
Truthy(r) == r.kind = "result"

-----------------------------------------------------------------------------
(* The runner: inputs and environment                                      *)

\* int(sys.argv[2]) for the port texts of the model; -1 stands for ValueError
IntOf(text) ==
    CASE text = "13260" -> 13260
      [] text = "70000" -> 70000
      [] OTHER -> -1

Argvs ==
    {<<"prog">>,
     <<"prog", "127.0.0.1">>,
     <<"prog", "127.0.0.1", "13260">>,
     <<"prog", "127.0.0.1", "70000">>,
     <<"prog", "127.0.0.1", "abc">>,
     <<"prog", "127.0.0.1", "13260", "extra">>}

\* the (class, detail) pairs a target answers with: the three codes the
\* scenarios expect
Statuses == {<<0, 0>>, <<2, 3>>, <<2, 7>>}

\* the replies a target may write: a header alone or a header with data after
\* it, with the login-response opcode (with and without flag bits) or another
Replies ==
    {[i \in 1 .. l |->
         IF i = 1 THEN b0
         ELSE IF i = 37 THEN st[1]
         ELSE IF i = 38 THEN st[2]
         ELSE 0] :
        l \in {HeaderLen, MaxBufLen}, b0 \in {35, 227, 3}, st \in Statuses}

\* how many bytes of the reply the transport hands to one recv call: all of
\* it, the header, or one byte less than the header
Delivered(s, r) ==
    {k \in {HeaderLen - 1, HeaderLen, Len(r)} : k <= Len(r) /\ k <= RecvSize(s)}

\* a local result that was never assigned
Unset == [kind |-> "unset", opcode |-> 0, status_class |-> 0,
          status_detail |-> 0, status_code |-> 0]

NoLine == [kind |-> "none", expected |-> -1, observed |-> -1, text |-> ""]

PerScenario(v) == [s \in Scenarios |-> v]

RunnerOff ==
    /\ argv = <<>>
    /\ repertoire = {}
    /\ reachable = FALSE
    /\ pc = "off"
    /\ cur = 0
    /\ results = <<>>
    /\ exitStatus = -1
    /\ escaped = "none"
    /\ sock = PerScenario("none")
    /\ timeoutSet = PerScenario(FALSE)
    /\ connected = PerScenario(FALSE)
    /\ connects = PerScenario(0)
    /\ sends = PerScenario(0)
    /\ recvs = PerScenario(0)
    /\ wire = <<>>
    /\ reply = <<>>
    /\ response = PerScenario(<<>>)
    /\ result = PerScenario(Unset)
    /\ exc = "none"
    /\ ret = "unset"
    /\ line = PerScenario(NoLine)

CodecOff ==
    /\ op = "none"
    /\ cpc = "off"
    /\ args = NoArgs
    /\ pdu = NoPdu
    /\ data = <<>>
    /\ parsed = NoResult

CodecInit ==
    /\ op \in {"encode", "decode"}
    /\ cpc = "call"
    /\ IF op = "encode"
       THEN args \in ArgSet /\ data = <<>>
       ELSE args = NoArgs /\ data \in Buffers
    /\ pdu = NoPdu
    /\ parsed = NoResult
    /\ RunnerOff

\* pdu = create_login_pdu(isid, tsih, cid, cmd_sn, exp_stat_sn, params)
CallCreateLoginPdu ==
    /\ op = "encode" /\ cpc = "call"
    /\ pdu' = create_login_pdu(args.isid, args.tsih, args.cid, args.cmd_sn,
                               args.exp_stat_sn, args.params)
    /\ cpc' = "ret"
    /\ UNCHANGED <<op, args, data, parsed>>
    /\ UNCHANGED runnerVars

\* result = parse_login_response(data)
CallParseLoginResponse ==
    /\ op = "decode" /\ cpc = "call"
    /\ parsed' = parse_login_response(data)
    /\ cpc' = "ret"
    /\ UNCHANGED <<op, args, data, pdu>>
    /\ UNCHANGED runnerVars

CodecNext == CallCreateLoginPdu \/ CallParseLoginResponse

CodecSpec == CodecInit /\ [][CodecNext]_vars

-----------------------------------------------------------------------------
(* The runner: main and the scenario functions                             *)

\* the process about to run main, against a target that may write the replies
\* of rep
InitWith(rep) ==
    /\ argv \in Argvs
    /\ repertoire = rep
    /\ reachable \in BOOLEAN
    /\ pc = "main"
    /\ cur = 0
    /\ results = <<>>
    /\ exitStatus = -1
    /\ escaped = "none"
    /\ sock = PerScenario("none")
    /\ timeoutSet = PerScenario(FALSE)
    /\ connected = PerScenario(FALSE)
    /\ connects = PerScenario(0)
    /\ sends = PerScenario(0)
    /\ recvs = PerScenario(0)
    /\ wire = <<>>
    /\ reply = <<>>
    /\ response = PerScenario(<<>>)
    /\ result = PerScenario(Unset)
    /\ exc = "none"
    /\ ret = "unset"
    /\ line = PerScenario(NoLine)
    /\ CodecOff

Init == InitWith(Replies)

\* the scenario being run
Cur == Order[cur]

\* a handler that tries the connection again when it was refused (a retry
\* policy the code does not have)
HandlerRetry(e) == IF e = "ConnectionRefusedError" THEN "connect" ELSE "except"

\* where an exception raised inside the try block goes: to the except clause
\* if it catches it, else through the finally clause and out of the function
Handler(e) == IF Catches(e) THEN "except" ELSE "finally"

\* After a blocking socket call with outcome o: "ok" goes on to next, an
\* exception name is raised, and "unresponsive" (the peer never answers) is
\* the socket's timeout if one is set and blocks for ever if none is.
AfterBlocking(o, next) ==
    /\ pc' = CASE o = "ok" -> next
               [] o = "unresponsive" ->
                    IF timeoutSet[Cur] THEN Handler("timeout") ELSE "hung"
               [] OTHER -> Handler(o)
    /\ exc' = CASE o = "ok" -> "none"
                [] o = "unresponsive" ->
                    IF timeoutSet[Cur] THEN "timeout" ELSE "none"
                [] OTHER -> o

\* the check rejecting only too few arguments (a plausible slip)
UsageErrorTooFew(av) == Len(av) < 3

\* if len(sys.argv) != 3
UsageError(av) == Len(av) # 3

\* main, lines 177-189: the argument-count check, host and port
Main ==
    /\ pc = "main"
    /\ IF UsageError(argv)
       THEN \* usage message, sys.exit(1)
            /\ pc' = "exited" /\ exitStatus' = 1
            /\ UNCHANGED <<cur, escaped>>
       ELSE IF IntOf(argv[3]) = -1
       THEN \* int() raises ValueError, which nothing catches: traceback, status 1
            /\ pc' = "exited" /\ exitStatus' = 1 /\ escaped' = "ValueError"
            /\ UNCHANGED cur
       ELSE \* results = []; the first scenario is called
            /\ pc' = "socket" /\ cur' = 1
            /\ UNCHANGED <<exitStatus, escaped>>
    /\ UNCHANGED <<argv, repertoire, reachable, results, sock, timeoutSet, connected,
                   connects, sends, recvs, wire, reply, response, result, exc,
                   ret, line>>
    /\ UNCHANGED codecVars

\* sock = socket.socket(socket.AF_INET, socket.SOCK_STREAM)
CreateSocket ==
    /\ pc = "socket"
    /\ sock' = [sock EXCEPT ![Cur] = "open"]
    /\ ret' = "unset"
    /\ pc' = "settimeout"
    /\ UNCHANGED <<argv, repertoire, reachable, cur, results, exitStatus, escaped,
                   timeoutSet, connected, connects, sends, recvs, wire, reply,
                   response, result, exc, line>>
    /\ UNCHANGED codecVars

\* the scenario going on to connect without the settimeout call (a plausible
\* omission)
SetTimeoutForgotten ==
    /\ pc = "settimeout"
    /\ pc' = "connect"
    /\ UNCHANGED <<argv, repertoire, reachable, cur, results, exitStatus, escaped, sock,
                   timeoutSet, connected, connects, sends, recvs, wire, reply,
                   response, result, exc, ret, line>>
    /\ UNCHANGED codecVars

\* sock.settimeout(5.0)
SetTimeout ==
    /\ pc = "settimeout"
    /\ timeoutSet' = [timeoutSet EXCEPT ![Cur] = TRUE]
    /\ pc' = "connect"
    /\ UNCHANGED <<argv, repertoire, reachable, cur, results, exitStatus, escaped, sock,
                   connected, connects, sends, recvs, wire, reply, response,
                   result, exc, ret, line>>
    /\ UNCHANGED codecVars

\* what connect can do: a port outside 0..65535 raises OverflowError before
\* anything is sent; an unreachable target refuses or never answers
ConnectOutcomes ==
    IF IntOf(argv[3]) > 65535 THEN {"OverflowError"}
    ELSE IF ~reachable THEN {"ConnectionRefusedError", "unresponsive"}
    ELSE {"ok", "ConnectionRefusedError", "unresponsive"}

\* sock.connect((host, port))
Connect ==
    /\ pc = "connect"
    /\ connects' = [connects EXCEPT ![Cur] = @ + 1]
    /\ \E o \in ConnectOutcomes :
          /\ AfterBlocking(o, "send")
          /\ connected' = [connected EXCEPT ![Cur] = (o = "ok")]
    /\ UNCHANGED <<argv, repertoire, reachable, cur, results, exitStatus, escaped, sock,
                   timeoutSet, sends, recvs, wire, reply, response, result,
                   ret, line>>
    /\ UNCHANGED codecVars

\* lines 79-84: pdu = create_login_pdu(isid, 0, 0, 0, 0, params) with each
\* scenario's isid and params (the same message in every run)
ScenarioPdu ==
    [s \in Scenarios |-> create_login_pdu(Isid(s), 0, 0, 0, 0, Params(s))]

\* lines 79-86: params, isid, pdu = create_login_pdu(isid, 0, 0, 0, 0, params),
\* sock.sendall(pdu)
Send ==
    /\ pc = "send"
    /\ LET m == ScenarioPdu[Cur]
       IN  IF m.exc # "none"
           THEN /\ pc' = Handler(m.exc) /\ exc' = m.exc
                /\ UNCHANGED <<sends, wire>>
           ELSE /\ sends' = [sends EXCEPT ![Cur] = @ + 1]
                /\ wire' = m.msg
                /\ \E o \in {"ok", "BrokenPipeError", "unresponsive"} :
                      AfterBlocking(o, "recv")
    /\ UNCHANGED <<argv, repertoire, reachable, cur, results, exitStatus, escaped, sock,
                   timeoutSet, connected, connects, recvs, reply, response,
                   result, ret, line>>
    /\ UNCHANGED codecVars

\* a receive loop that reads again after a short read (a plausible change)
AfterRecvRetry(resp) == IF ByteLen(resp) < HeaderLen THEN "recv" ELSE "parse"

\* the statement after response = sock.recv(...): the parse, whatever was read
AfterRecv(resp) == "parse"

\* response = sock.recv(48), or sock.recv(1024) in test_successful_login.
\* The target wrote r; one recv returns the first k bytes of it, as many as
\* the transport has delivered and at most the bufsize; b'' if the target
\* closed without writing.
Recv ==
    /\ pc = "recv"
    /\ recvs' = [recvs EXCEPT ![Cur] = @ + 1]
    /\ \E o \in {"data", "closed", "ConnectionResetError", "unresponsive"} :
       \E r \in (IF o = "data" THEN repertoire ELSE {<<>>}) :
       \E k \in (IF o = "data" THEN Delivered(Cur, r) ELSE {0}) :
          IF o \in {"data", "closed"}
          THEN /\ reply' = r
               /\ response' = [response EXCEPT ![Cur] = Bytes(SubSeq(r, 1, k))]
               /\ AfterBlocking("ok", AfterRecv(Bytes(SubSeq(r, 1, k))))
          ELSE /\ AfterBlocking(o, "parse")
               /\ UNCHANGED <<reply, response>>
    /\ UNCHANGED <<argv, repertoire, reachable, cur, results, exitStatus, escaped, sock,
                   timeoutSet, connected, connects, sends, wire, result, ret,
                   line>>
    /\ UNCHANGED codecVars

\* result = parse_login_response(response)
Parse ==
    /\ pc = "parse"
    /\ LET r == parse_login_response(response[Cur])
       IN  IF r.kind \in {"None", "result"}
           THEN /\ result' = [result EXCEPT ![Cur] = r]
                /\ pc' = "compare"
                /\ UNCHANGED exc
           ELSE /\ pc' = Handler(r.kind) /\ exc' = r.kind
                /\ UNCHANGED result
    /\ UNCHANGED <<argv, repertoire, reachable, cur, results, exitStatus, escaped, sock,
                   timeoutSet, connected, connects, sends, recvs, wire, reply,
                   response, ret, line>>
    /\ UNCHANGED codecVars

\* lines 92-97 (127-132, 163-169): if result and result['status_code'] == ...:
\* print the pass line and return True; else print the mismatch line and
\* return False.  "finally" is entered with the return value pending.
Compare ==
    /\ pc = "compare"
    /\ LET r == result[Cur]
       IN  IF Truthy(r) /\ r.status_code = Expected(Cur)
           THEN /\ line' = [line EXCEPT ![Cur] =
                        [kind |-> "pass", expected |-> Expected(Cur),
                         observed |-> r.status_code, text |-> ""]]
                /\ ret' = "True"
                /\ pc' = "finally"
                /\ UNCHANGED exc
           ELSE IF MismatchLineFormats(Cur)
           THEN /\ line' = [line EXCEPT ![Cur] =
                        [kind |-> "mismatch", expected |-> Expected(Cur),
                         observed |-> IF Truthy(r) THEN r.status_code ELSE 0,
                         text |-> ""]]
                /\ ret' = "False"
                /\ pc' = "finally"
                /\ UNCHANGED exc
           ELSE /\ pc' = Handler(MismatchLineError(r))
                /\ exc' = MismatchLineError(r)
                /\ UNCHANGED <<line, ret>>
    /\ UNCHANGED <<argv, repertoire, reachable, cur, results, exitStatus, escaped, sock,
                   timeoutSet, connected, connects, sends, recvs, wire, reply,
                   response, result>>
    /\ UNCHANGED codecVars

\* a handler that reports the failure but returns True (a plausible slip)
ExceptReturnsTrue == "True"

\* except Exception as e: ... return False
ExceptReturns == "False"

\* lines 98-100: print(f"  FAIL: {e}"); return False
Except ==
    /\ pc = "except"
    /\ line' = [line EXCEPT ![Cur] =
                  [kind |-> "exception", expected |-> -1, observed |-> -1,
                   text |-> exc]]
    /\ ret' = ExceptReturns
    /\ exc' = "none"
    /\ pc' = "finally"
    /\ UNCHANGED <<argv, repertoire, reachable, cur, results, exitStatus, escaped, sock,
                   timeoutSet, connected, connects, sends, recvs, wire, reply,
                   response, result>>
    /\ UNCHANGED codecVars

\* the close placed at the end of the normal path only (a plausible slip)
CloseUnlessException(s) ==
    IF line[s].kind = "exception" THEN sock[s] ELSE "closed"

\* finally: sock.close()
Close(s) == "closed"

\* Lines 101-102, then the return to main: sock.close(), after which the bytes
\* the target wrote on the connection are gone; an exception still
\* in flight leaves the function and, main catching nothing, ends the process
\* with a traceback and status 1; otherwise main appends the returned verdict
\* (lines 192-194) and calls the next scenario or goes on to the summary.
Finally ==
    /\ pc = "finally"
    /\ sock' = [sock EXCEPT ![Cur] = Close(Cur)]
    /\ IF exc # "none"
       THEN /\ escaped' = exc /\ exitStatus' = 1 /\ pc' = "exited"
            /\ UNCHANGED <<results, cur>>
       ELSE /\ results' = Append(results, ret = "True")
            /\ IF cur < Len(Order)
               THEN cur' = cur + 1 /\ pc' = "socket"
               ELSE pc' = "summary" /\ UNCHANGED cur
            /\ UNCHANGED <<escaped, exitStatus>>
    /\ reply' = <<>>
    /\ UNCHANGED <<argv, repertoire, reachable, timeoutSet, connected, connects, sends,
                   recvs, wire, response, result, exc, ret, line>>
    /\ UNCHANGED codecVars

RECURSIVE AllOf(_)
\* all(results)
AllOf(rs) == IF Len(rs) = 0 THEN TRUE ELSE rs[1] /\ AllOf(Tail(rs))

RECURSIVE AnyOf(_)
\* any(results)
AnyOf(rs) == IF Len(rs) = 0 THEN FALSE ELSE rs[1] \/ AnyOf(Tail(rs))

\* the exit status computed with any() in place of all() (a plausible slip)
ExitCodeAny(rs) == IF AnyOf(rs) THEN 0 ELSE 1

\* 0 if all(results) else 1
ExitCode(rs) == IF AllOf(rs) THEN 0 ELSE 1

\* lines 196-201: the summary and sys.exit(0 if all(results) else 1)
Summary ==
    /\ pc = "summary"
    /\ exitStatus' = ExitCode(results)
    /\ pc' = "exited"
    /\ UNCHANGED <<argv, repertoire, reachable, cur, results, escaped, sock, timeoutSet,
                   connected, connects, sends, recvs, wire, reply, response,
                   result, exc, ret, line>>
    /\ UNCHANGED codecVars

Next ==
    \/ Main
    \/ CreateSocket
    \/ SetTimeout
    \/ Connect
    \/ Send
    \/ Recv
    \/ Parse
    \/ Compare
    \/ Except
    \/ Finally
    \/ Summary

Spec == Init /\ [][Next]_vars

\* The process is a single thread that runs statement after statement: it
\* never stops while a statement is left to run, and a blocking socket call
\* returns or raises (its outcomes are those of AfterBlocking).
Fairness == WF_vars(Next)

\* a target that writes a bare 48-byte login response with one of the three
\* statuses, or nothing at all
HeaderReplies == {r \in Replies : Len(r) = HeaderLen /\ r[1] = LOGIN_RESPONSE}

FairInit == InitWith(HeaderReplies)

FairSpec == FairInit /\ [][Next]_vars /\ Fairness

-----------------------------------------------------------------------------
(* Claims about the codec (checked under CodecSpec)                        *)

\* create_login_pdu has returned a message
Returned == op = "encode" /\ cpc = "ret" /\ pdu.exc = "none"

\* parse_login_response has been applied to data
Decoded == op = "decode" /\ cpc = "ret"

\* the length of what follows the 48-byte header in the returned message
PayloadLen == ByteLen(pdu.msg) - 48

\* the 24-bit big-endian value of header bytes 5..7 of the returned message
DeclaredLen ==
    (ByteAt(pdu.msg, 5) * 65536) + (ByteAt(pdu.msg, 6) * 256) + ByteAt(pdu.msg, 7)

\* C7: for every parameter text, the empty one included, create_login_pdu
\* returns a message, and the payload after its 48-byte header has a length
\* that is a multiple of 4.
C7_PayloadMultipleOf4 ==
    (op = "encode" /\ cpc = "ret") =>
        /\ pdu.exc = "none"
        /\ PayloadLen >= 0
        /\ PayloadLen % 4 = 0

\* C7 witness: a message was returned for a text whose encoding is not aligned
\* (three bytes: one euro sign), so that padding had to happen.
C7_Witness ==
    /\ Returned
    /\ args.params = <<Run(8364, 1)>>
    /\ PayloadLen = 4

\* C8 as stated: the length field equals the exact byte length of the padded
\* payload, for every payload length.
C8_LengthFieldExact == Returned => DeclaredLen = PayloadLen

\* C8 amended: the length field equals the padded payload's byte length
\* modulo 2^24 (its three bytes), hence the exact length whenever the padded
\* payload is shorter than 2^24 bytes.
C8_LengthFieldMod24 ==
    Returned =>
        /\ DeclaredLen = PayloadLen % FieldLimit
        /\ (PayloadLen < FieldLimit => DeclaredLen = PayloadLen)

\* C8 witness: a returned message whose payload is nearly as long as the field
\* allows and was padded: 'A' * (2^24 - 4) followed by one 'A'.
C8_Witness ==
    /\ Returned
    /\ args.params = <<Run(65, FieldLimit - 4), Run(65, 1)>>
    /\ PayloadLen = FieldLimit
    /\ DeclaredLen = 0

\* C9: for every buffer of exactly 48 bytes whose byte 0 has low 6 bits 0x23,
\* whatever its top 2 bits, the result's status_class is byte 36, its
\* status_detail is byte 37 and its status_code is (byte36 << 8) | byte37.
C9_Decode48 ==
    (Decoded /\ ByteLen(data) = 48 /\ ByteAt(data, 0) % 64 = 35) =>
        /\ parsed.kind = "result"
        /\ parsed.status_class = ByteAt(data, 36)
        /\ parsed.status_detail = ByteAt(data, 37)
        /\ parsed.status_code = (ByteAt(data, 36) * 256) + ByteAt(data, 37)

\* C9 witness: a 48-byte buffer with byte 0 = 0xE3 (both top bits set), class 2
\* and detail 3 was decoded to 0x0203.
C9_Witness ==
    /\ Decoded
    /\ ByteLen(data) = 48
    /\ ByteAt(data, 0) = 227
    /\ ByteAt(data, 36) = 2 /\ ByteAt(data, 37) = 3
    /\ parsed.kind = "result" /\ parsed.status_code = 515

\* C10: for every buffer shorter than 48 bytes, the empty one included and
\* whatever its content, parse_login_response returns None and raises nothing.
C10_ShortIsNone ==
    (Decoded /\ ByteLen(data) < 48) => parsed.kind = "None"

\* C10 witness: a 47-byte buffer that carries the login-response opcode and a
\* status was decoded to None.
C10_Witness ==
    /\ Decoded
    /\ ByteLen(data) = 47
    /\ ByteAt(data, 0) = 35
    /\ parsed.kind = "None"

-----------------------------------------------------------------------------
(* Claims about the runner (checked under Spec)                            *)

\* the position of scenario s in the order main calls them
Pos(s) == CHOOSE i \in 1 .. Len(Order) : Order[i] = s

\* scenario s has returned its verdict to main
HasVerdict(s) == Pos(s) <= Len(results)

\* the verdict of scenario s, once it has one
Verdict(s) == results[Pos(s)]

\* the codes the three scenarios are documented to expect
Documented(s) ==
    CASE s = "successful_login" -> 0
      [] s = "target_not_found" -> 515
      [] s = "missing_parameter" -> 519

\* parse_login_response returned a result in scenario s and its status_code is
\* the code the scenario expects
GotExpected(s) ==
    result[s].kind = "result" /\ result[s].status_code = Documented(s)

\* main passed the argument-count check and converted the port
Started == Len(argv) = 3 /\ IntOf(argv[3]) # -1

\* C1: for each of the three scenarios the verdict is pass if and only if
\* parse_login_response returned a result for the bytes read and its
\* status_code is the scenario's expected code; in every other case, an
\* exception included, the scenario that ends has the verdict fail.
C1_VerdictIffExpected ==
    \A s \in Scenarios :
        /\ HasVerdict(s) => (Verdict(s) <=> GotExpected(s))
        /\ sock[s] = "closed" => HasVerdict(s)
        /\ result[s].kind = "result" =>
              /\ recvs[s] = 1
              /\ ByteLen(response[s]) >= 48
              /\ result[s].status_code =
                    (ByteAt(response[s], 36) * 256) + ByteAt(response[s], 37)

\* C1 witness: the process has exited with one scenario passed on a decoded
\* 0x0203, one failed on a decoded status other than its own, and one failed
\* on an exception before anything was decoded.
C1_Witness ==
    /\ pc = "exited"
    /\ results = <<FALSE, TRUE, FALSE>>
    /\ result["target_not_found"].status_code = 515
    /\ result["successful_login"].kind = "result"
    /\ result["successful_login"].status_code = 519
    /\ result["missing_parameter"].kind = "unset"
    /\ line["missing_parameter"].kind = "exception"

\* C2 as stated: once main has passed the argument-count check, all three
\* scenarios are executed.
C2_AllRunAfterArgCheck ==
    (pc = "exited" /\ Len(argv) = 3) =>
        /\ Len(results) = 3
        /\ \A s \in Scenarios : sock[s] = "closed"

\* C2 amended: once main has passed the argument-count check and converted
\* the port argument to an integer, all three scenarios are executed whatever
\* the outcome of the earlier ones: an exception raised during connect, send or
\* receive of a scenario is caught inside it (none reaches main), becomes a
\* failing verdict for that scenario, and each verdict is decided by the
\* scenario's own response alone.
C2_AllRunAfterPortParsed ==
    /\ Started => escaped = "none"
    /\ (pc = "exited" /\ Started) =>
          /\ Len(results) = 3
          /\ \A s \in Scenarios : sock[s] = "closed" /\ connects[s] = 1
    /\ \A s \in Scenarios :
          /\ (HasVerdict(s) /\ line[s].kind = "exception") => ~Verdict(s)
          /\ HasVerdict(s) => (Verdict(s) <=> GotExpected(s))
          /\ (line[s].kind = "exception" /\ sock[s] = "closed") => HasVerdict(s)

\* C2 witness: the first scenario failed on a timeout in recv, the second on a
\* refused connect, and the third was still run and passed.
C2_Witness ==
    /\ pc = "exited"
    /\ line["successful_login"].text = "timeout"
    /\ recvs["successful_login"] = 1
    /\ line["target_not_found"].text = "ConnectionRefusedError"
    /\ results = <<FALSE, FALSE, TRUE>>

\* C3: the process exits with status 0 if and only if every one of the three
\* scenarios produced a pass verdict; with a fail verdict, or without all
\* three verdicts, the exit status is non-zero.
C3_ExitZeroIffAllPass ==
    /\ pc = "exited" =>
          /\ exitStatus \in {0, 1}
          /\ exitStatus = 0 <=>
                (Len(results) = 3 /\ \A i \in 1 .. 3 : results[i])
    /\ pc # "exited" => exitStatus = -1

\* C3 witness: all three scenarios passed and the process exited with 0.
C3_Witness ==
    /\ pc = "exited"
    /\ exitStatus = 0
    /\ results = <<TRUE, TRUE, TRUE>>

\* the scenarios whose socket is open
OpenSockets == {s \in Scenarios : sock[s] = "open"}

\* C4: each scenario's connection is closed on every exit path before the
\* next scenario opens its own: at most one socket is open in any state, none
\* is open when a scenario is about to create its socket or when the summary
\* is printed, and none is open when the process has exited.
C4_NoSocketLeak ==
    /\ Cardinality(OpenSockets) <= 1
    /\ pc \in {"main", "socket", "summary", "exited"} => OpenSockets = {}
    /\ \A s \in Scenarios : HasVerdict(s) => sock[s] = "closed"
    /\ OpenSockets # {} => OpenSockets = {Cur}

\* C4 witness: the first scenario ended by an exception and the second by a
\* pass, both sockets are closed, and the third scenario's socket is open.
C4_Witness ==
    /\ line["successful_login"].kind = "exception"
    /\ sock["successful_login"] = "closed"
    /\ line["target_not_found"].kind = "pass"
    /\ sock["target_not_found"] = "closed"
    /\ sock["missing_parameter"] = "open"

\* C5: if the target is unreachable (every connect attempt fails or times
\* out), then in a run that got as far as the scenarios all three report a
\* failing verdict, no exception escapes a scenario function to main, and the
\* process exits with a non-zero status.
C5_UnreachableAllFail ==
    (~reachable /\ Started) =>
        /\ escaped = "none"
        /\ \A s \in Scenarios :
              /\ ~connected[s]
              /\ HasVerdict(s) => ~Verdict(s)
        /\ pc = "exited" =>
              /\ results = <<FALSE, FALSE, FALSE>>
              /\ \A s \in Scenarios :
                    connects[s] = 1 /\ line[s].kind = "exception"
              /\ exitStatus # 0

\* C5 witness: against an unreachable target the process has exited after one
\* refused connect and two connect timeouts.
C5_Witness ==
    /\ ~reachable
    /\ pc = "exited"
    /\ exitStatus = 1
    /\ line["successful_login"].text = "ConnectionRefusedError"
    /\ line["target_not_found"].text = "timeout"
    /\ line["missing_parameter"].text = "timeout"

\* C6 as stated: in every execution each scenario issues exactly one request
\* and performs exactly one read, never zero.
C6_ExactlyOneSendOneRecv ==
    (pc = "exited" /\ Started) =>
        \A s \in Scenarios : sends[s] = 1 /\ recvs[s] = 1

\* C6 amended: each scenario issues at most one request and performs at most
\* one read: one request exactly when its connect succeeded (none when connect
\* raised), a read only after its request was handed to sendall, and exactly
\* one of each in a scenario that got a response to parse.
C6_AtMostOneSendOneRecv ==
    \A s \in Scenarios :
        /\ connects[s] <= 1 /\ sends[s] <= 1 /\ recvs[s] <= 1
        /\ recvs[s] <= sends[s] /\ sends[s] <= connects[s]
        /\ sends[s] = 1 => connected[s]
        /\ HasVerdict(s) => sends[s] = (IF connected[s] THEN 1 ELSE 0)
        /\ result[s].kind # "unset" => (sends[s] = 1 /\ recvs[s] = 1)

\* C6 witness: the process has exited after a scenario that sent and read
\* once, a scenario whose connect failed (no request, no read) and a scenario
\* whose sendall failed (one request, no read).
C6_Witness ==
    /\ pc = "exited"
    /\ sends["successful_login"] = 1 /\ recvs["successful_login"] = 1
    /\ connects["target_not_found"] = 1
    /\ sends["target_not_found"] = 0 /\ recvs["target_not_found"] = 0
    /\ sends["missing_parameter"] = 1 /\ recvs["missing_parameter"] = 0

-----------------------------------------------------------------------------
(* Further claims about the codec (checked under CodecSpec)                *)

\* C11: for every buffer of at least 48 bytes whose byte 0 has low 6 bits other
\* than 0x23, parse_login_response returns None and raises nothing, whatever
\* the other bytes are, bytes 36 and 37 included.
C11_WrongOpcodeIsNone ==
    (Decoded /\ ByteLen(data) >= 48 /\ ByteAt(data, 0) % 64 # 35) =>
        parsed.kind = "None"

\* C11 witness: a buffer longer than the header whose byte 0 is 0xFF (low 6
\* bits 0x3F) and whose bytes 36 and 37 carry a status was decoded to None.
C11_Witness ==
    /\ Decoded
    /\ ByteLen(data) > 48
    /\ ByteAt(data, 0) = 255
    /\ ByteAt(data, 36) = 2 /\ ByteAt(data, 37) = 3
    /\ parsed.kind = "None"

\* what C17 says the result may depend on, for a buffer of at least 48 bytes:
\* the low 6 bits of byte 0, byte 36 and byte 37
Inspected(d) == <<ByteAt(d, 0) % 64, ByteAt(d, 36), ByteAt(d, 37)>>

\* C17: the result of parse_login_response on a buffer of at least 48 bytes
\* depends only on the low 6 bits of byte 0 and on bytes 36 and 37: every
\* other buffer of at least 48 bytes that agrees on these yields the same
\* result, whatever its length, the top 2 bits of its byte 0 and its other
\* bytes are.
C17_DependsOnlyOnInspected ==
    (Decoded /\ ByteLen(data) >= 48) =>
        \A d \in Buffers :
            (ByteLen(d) >= 48 /\ Inspected(d) = Inspected(data)) =>
                parse_login_response(d) = parsed

\* C17 witness: a 48-byte buffer with byte 0 = 0x23 and zeros elsewhere was
\* decoded to status 0x0203, and the buffer of 50 bytes with byte 0 = 0xE3 and
\* 0xAA in every other uninspected byte decodes to the same result.
C17_Witness ==
    /\ Decoded
    /\ data = Buffer(48, 35, 2, 3, 0)
    /\ parsed.kind = "result" /\ parsed.status_code = 515
    /\ Buffer(MaxBufLen, 227, 2, 3, 170) \in Buffers
    /\ Inspected(Buffer(MaxBufLen, 227, 2, 3, 170)) = Inspected(data)
    /\ parse_login_response(Buffer(MaxBufLen, 227, 2, 3, 170)) = parsed

\* the n bytes of the returned message from offset off on
MsgBytes(off, n) == [i \in 1 .. n |-> ByteAt(pdu.msg, off + i - 1)]

\* the big-endian encoding of v on n bytes
BigEndian(v, n) == [i \in 1 .. n |-> (v \div (256 ^ (n - i))) % 256]

\* C18: in every message returned by create_login_pdu, header bytes 16..19
\* (task identifier) and 24..27 (command sequence number) both hold the
\* big-endian 4-byte encoding of cmd_sn, so the two fields are equal; bytes
\* 28..31 hold exp_stat_sn and bytes 20..21 hold cid, whatever cmd_sn is.
C18_TaskTagIsCmdSn ==
    Returned =>
        /\ MsgBytes(16, 4) = BigEndian(args.cmd_sn, 4)
        /\ MsgBytes(24, 4) = BigEndian(args.cmd_sn, 4)
        /\ MsgBytes(16, 4) = MsgBytes(24, 4)
        /\ MsgBytes(28, 4) = BigEndian(args.exp_stat_sn, 4)
        /\ MsgBytes(20, 2) = BigEndian(args.cid, 2)

\* C18 witness: a message was returned for cmd_sn = 0x01020304, cid = 2 and
\* exp_stat_sn = 5; bytes 16..19 and 24..27 are 01 02 03 04, bytes 20..21 are
\* 00 02 and bytes 28..31 are 00 00 00 05.
C18_Witness ==
    /\ Returned
    /\ args.cmd_sn = 16909060 /\ args.cid = 2 /\ args.exp_stat_sn = 5
    /\ MsgBytes(16, 4) = <<1, 2, 3, 4>>
    /\ MsgBytes(24, 4) = <<1, 2, 3, 4>>
    /\ MsgBytes(20, 2) = <<0, 2>>
    /\ MsgBytes(28, 4) = <<0, 0, 0, 5>>

\* the number of bytes UTF-8 needs for one code point
Utf8Width(cp) ==
    IF cp < 128 THEN 1 ELSE IF cp < 2048 THEN 2 ELSE IF cp < 65536 THEN 3 ELSE 4

RECURSIVE EncodedLen(_)
\* the number of bytes of the UTF-8 encoding of a text
EncodedLen(text) ==
    IF Len(text) = 0 THEN 0
    ELSE Utf8Width(text[1].cp) * text[1].n + EncodedLen(Tail(text))

\* n rounded up to a multiple of 4
RoundUp4(n) == ((n + 3) \div 4) * 4

\* C20: for every 6-byte isid and every parameter text create_login_pdu
\* returns a message made of a header of exactly 48 bytes, then the encoded
\* parameter text unchanged from offset 48 on, then only null bytes, as few
\* as reach a multiple of 4 (0 to 3); the message is 48 plus the rounded-up
\* parameter length long, and an aligned text gets no padding.
C20_HeaderTextMinimalPadding ==
    (op = "encode" /\ cpc = "ret" /\ Len(args.isid) = 6) =>
        /\ pdu.exc = "none"
        /\ LET m == pdu.msg
               enc == Encode(args.params).buf
               len == EncodedLen(args.params)
               padding == Len(m) - 1 - Len(enc)
           IN  /\ Len(m) >= 1 + Len(enc)
               /\ m[1].n = 1 /\ Len(m[1].pat) = 48
               /\ SubSeq(m, 2, Len(enc) + 1) = enc
               /\ ByteLen(enc) = len
               /\ \A i \in Len(enc) + 2 .. Len(m) : m[i] = Block(<<0>>, 1)
               /\ padding \in 0 .. 3
               /\ padding = (4 - (len % 4)) % 4
               /\ ByteLen(m) = 48 + RoundUp4(len)
               /\ len % 4 = 0 => ByteLen(m) = 48 + len

\* C20 witness: for a text of one 4-byte character the returned message is
\* the 48-byte header followed by those 4 bytes and nothing else; 52 bytes.
C20_Witness ==
    /\ Returned
    /\ args.params = <<Run(128512, 1)>>
    /\ Len(pdu.msg) = 2
    /\ pdu.msg[2] = Block(<<240, 159, 152, 128>>, 1)
    /\ ByteLen(pdu.msg) = 52

-----------------------------------------------------------------------------
(* Further claims about the runner (checked under Spec)                    *)

\* C12: every scenario that decoded a response prints a result line stating
\* pass or fail together with the observed and the expected status code; in
\* particular, in each of the three scenarios, a response decoded to a status
\* code other than the expected one is reported by the mismatch line carrying
\* the expected and the observed code.
C12_MismatchLineReported ==
    \A s \in Scenarios :
        (HasVerdict(s) /\ result[s].kind = "result") =>
            /\ line[s].kind =
                  (IF result[s].status_code = Documented(s)
                   THEN "pass" ELSE "mismatch")
            /\ line[s].expected = Documented(s)
            /\ line[s].observed = result[s].status_code

\* C13: started with an argument count other than two (host and port), the
\* program exits with a non-zero status before any socket is created, any
\* connection is attempted or any scenario is started.
C13_UsageFailsFast ==
    Len(argv) # 3 =>
        /\ pc \in {"main", "exited"}
        /\ cur = 0 /\ results = <<>>
        /\ \A s \in Scenarios :
              /\ sock[s] = "none" /\ ~timeoutSet[s]
              /\ connects[s] = 0 /\ sends[s] = 0 /\ recvs[s] = 0
              /\ line[s] = NoLine
        /\ pc = "exited" => (exitStatus = 1 /\ escaped = "none")

\* C13 witness: started with three arguments after the program name, the
\* process has exited with status 1 and no socket was ever created.
C13_Witness ==
    /\ Len(argv) = 4
    /\ pc = "exited"
    /\ exitStatus = 1
    /\ \A s \in Scenarios : sock[s] = "none"

-----------------------------------------------------------------------------
(* Claims about the order of steps and termination (checked under FairSpec) *)

\* The timeout is set on a scenario's socket before its connect is attempted,
\* no blocking call waits for ever, and a call that the target never answers
\* makes its scenario fail.
TimeoutGuardsBlockingCalls ==
    /\ \A s \in Scenarios : connects[s] > 0 => timeoutSet[s]
    /\ pc = "connect" => timeoutSet[Cur]
    /\ pc # "hung"
    /\ \A s \in Scenarios :
          (line[s].text = "timeout" /\ HasVerdict(s)) => ~Verdict(s)

\* The process has terminated with a verdict recorded for all three scenarios.
ThreeVerdicts == pc = "exited" /\ Len(results) = 3 /\ escaped = "none"

\* C14 as stated: the timeout is set on each scenario's socket before its
\* connect is attempted, an unresponsive target makes the affected scenario
\* fail and never hangs the run, and every run eventually terminates with a
\* verdict recorded for all three scenarios.
C14_EveryRunThreeVerdicts ==
    /\ []TimeoutGuardsBlockingCalls
    /\ <>ThreeVerdicts

\* C14 amended: the same, for every run that reaches the scenarios (two
\* arguments, and a port argument that int() accepts).
C14_TimeoutThenTerminates ==
    /\ []TimeoutGuardsBlockingCalls
    /\ (Started => <>ThreeVerdicts)

\* C14 witness: the target answered nothing to the first scenario's request
\* and nothing to the second scenario's connect; both failed on the timeout,
\* the third scenario ran, and the process has exited with three verdicts.
C14_Witness ==
    /\ pc = "exited"
    /\ Len(results) = 3
    /\ line["successful_login"].text = "timeout"
    /\ sends["successful_login"] = 1 /\ recvs["successful_login"] = 1
    /\ line["target_not_found"].text = "timeout"
    /\ connects["target_not_found"] = 1 /\ sends["target_not_found"] = 0
    /\ timeoutSet["target_not_found"]
    /\ ~results[1] /\ ~results[2]

\* The position of a step in the scenario functions' text: creating the socket
\* and setting its timeout (idle), connect (connecting), sendall
\* (request-sent), recv (awaiting-response), parse_login_response (parsed or
\* parse-failed), the comparison or the except clause (verdict), the finally
\* clause (closed); the summary and the exit come after every scenario.
StepRank(p) ==
    CASE p = "socket" -> 0
      [] p = "settimeout" -> 1
      [] p = "connect" -> 2
      [] p = "send" -> 3
      [] p = "recv" -> 4
      [] p = "parse" -> 5
      [] p = "compare" -> 6
      [] p = "except" -> 7
      [] p = "finally" -> 8
      [] p = "summary" -> 9
      [] OTHER -> 10

\* every step inside a scenario moves forward in the order of StepRank
MovesForward == (cur >= 1 /\ cur' = cur) => StepRank(pc') > StepRank(pc)

\* the next scenario starts only from the finally clause of the one before,
\* whose socket that step closes, and starts with no socket
StartsAfterClose ==
    (cur >= 1 /\ cur' # cur) =>
        /\ pc = "finally" /\ pc' = "socket"
        /\ cur' = cur + 1
        /\ sock'[Cur] = "closed"
        /\ sock'[Order[cur']] = "none"

\* no step of a scenario is taken twice; the request is sent only on a
\* connection that succeeded; the response is read only after the request was
\* sent and decoded only after it was read; the verdict is determined while
\* the socket is still open; a scenario that returned has closed its socket
StepsOnce ==
    /\ \A s \in Scenarios :
          /\ connects[s] <= 1 /\ sends[s] <= 1 /\ recvs[s] <= 1
          /\ sends[s] > 0 => (connected[s] /\ connects[s] = 1)
          /\ recvs[s] > 0 => sends[s] = 1
          /\ result[s].kind # "unset" => recvs[s] = 1
          /\ HasVerdict(s) => (sock[s] = "closed" /\ line[s] # NoLine)
    /\ pc = "finally" =>
          /\ sock[Cur] = "open"
          /\ ret \in {"True", "False"}
          /\ line[Cur] # NoLine

\* C15: within each scenario the steps occur only in the order idle,
\* connecting, request-sent, awaiting-response, parsed or parse-failed,
\* verdict, closed; no step is repeated or revisited, the request is never
\* sent before connect succeeded, the response never read before the request
\* was sent, the verdict is determined before the connection is closed, and
\* every scenario ends in closed.
C15_StepsInOrder ==
    /\ [][MovesForward]_vars
    /\ [][StartsAfterClose]_vars
    /\ []StepsOnce
    /\ (Started => <>(\A s \in Scenarios : sock[s] = "closed"))

\* C15 witness: the third scenario is in its finally clause with a passing
\* verdict after one connect, one request and one read; the first scenario
\* failed to decode a short response and the second one's connect failed, and
\* both have closed their sockets.
C15_Witness ==
    /\ cur = 3 /\ pc = "finally" /\ ret = "True"
    /\ connects[Cur] = 1 /\ sends[Cur] = 1 /\ recvs[Cur] = 1
    /\ result[Cur].kind = "result"
    /\ sock[Cur] = "open"
    /\ result["successful_login"].kind = "None"
    /\ sock["successful_login"] = "closed"
    /\ connects["target_not_found"] = 1 /\ sends["target_not_found"] = 0
    /\ sock["target_not_found"] = "closed"

-----------------------------------------------------------------------------
(* Claims about undecodable and split responses (checked under Spec)       *)

\* C16: in each of the three scenarios, when parse_login_response returned
\* None (fewer than 48 bytes read, or a wrong opcode), the failing verdict is
\* produced by the status-comparison branch, which reports a non-matching
\* status code, and not by the exception handler.
C16_NoResultThroughComparison ==
    \A s \in Scenarios :
        (HasVerdict(s) /\ result[s].kind = "None") =>
            (~Verdict(s) /\ line[s].kind = "mismatch")

\* the target wrote a well-formed login response carrying the status code the
\* current scenario expects: at least 48 bytes, opcode 0x23 in the low 6 bits
\* of byte 0, the code in bytes 36 and 37
WellFormedExpectedReply ==
    /\ Len(reply) >= 48
    /\ reply[1] % 64 = 35
    /\ reply[37] * 256 + reply[38] = Documented(Cur)

\* C19: when a scenario's connect and send succeeded and the target replied
\* with a well-formed login response whose status code is the expected one,
\* the scenario's verdict is pass, however many of the response's bytes the
\* transport delivered to the single recv call.
C19_PassHoweverSplit ==
    (/\ pc = "finally"
     /\ connected[Cur] /\ sends[Cur] = 1 /\ recvs[Cur] = 1
     /\ response[Cur] # <<>>
     /\ WellFormedExpectedReply) => ret = "True"

=============================================================================
